---- MODULE Spec2Model ----
(***************************************************************************)
(* Model of convert_embeddings_pkl_to_json.py: the conversion of a pickled *)
(* object graph holding named embeddings into the canonical JSON document. *)
(*                                                                         *)
(* Python values are tagged records [t |-> <type>, v |-> <payload>].       *)
(* A float is held in fixed point: v is the number of 1/Scale units.       *)
(* A dict is the sequence of its <<key, value>> entries in insertion order.*)
(***************************************************************************)
EXTENDS Integers, Sequences, FiniteSets, TLC

\* ------------------------------------------------------------------------
\* Bounds of the model
\* ------------------------------------------------------------------------
MaxEntries == 2      \* entries of a top-level mapping / elements of a top-level list
MaxCap == 2          \* largest --max-items value tried (the smallest is -MaxCap)
FracDigits == 1      \* decimal digits behind the point of the model's floats
MaxLen == 2          \* components of a vector given to the numeric functions

\* 10 ** p
RECURSIVE Pow10(_)
Pow10(p) == IF p = 0 THEN 1 ELSE 10 * Pow10(p - 1)

\* Fixed-point resolution of the model's floats (units per 1.0)
Scale == Pow10(FracDigits)

\* ------------------------------------------------------------------------
\* Python values
\* ------------------------------------------------------------------------
PyNone == [t |-> "none"]
PyInt(n) == [t |-> "int", v |-> n]
PyFloat(u) == [t |-> "float", v |-> u]
PyStr(s) == [t |-> "str", v |-> s]
PyList(s) == [t |-> "list", v |-> s]
PyTuple(s) == [t |-> "tuple", v |-> s]
PyNdarray(s) == [t |-> "ndarray", v |-> s]
PyDict(s) == [t |-> "dict", v |-> s]

\* isinstance(x, dict)
IsDict(x) == x.t = "dict"

\* isinstance(x, list)
IsList(x) == x.t = "list"

\* isinstance(x, (list, tuple))
IsListOrTuple(x) == x.t \in {"list", "tuple"}

\* np is not None and isinstance(x, np.ndarray): an ndarray value can only
\* have been unpickled when numpy is installed
IsNdarray(x) == x.t = "ndarray"

\* isinstance(x, (list, tuple)) or (np is not None and isinstance(x, np.ndarray))
IsArrayLike(x) == IsListOrTuple(x) \/ IsNdarray(x)

\* bool(x): Python truth value
Truthy(x) ==
  CASE x.t = "none" -> FALSE
    [] x.t \in {"int", "float"} -> x.v # 0
    [] x.t = "str" -> x.v # ""
    [] x.t = "ndarray" -> Len(x.v) = 1 /\ x.v[1].v # 0
    [] OTHER -> Len(x.v) > 0

\* bool(x) raises ValueError: the truth value of an ndarray with more than
\* one element is ambiguous
TruthRaises(x) == x.t = "ndarray" /\ Len(x.v) > 1

\* str(x) for the identifier types of the model (str and int)
Str(x) == IF x.t = "str" THEN x.v ELSE ToString(x.v)

\* k in d
DictHas(d, k) == \E i \in 1..Len(d.v) : d.v[i][1] = PyStr(k)

\* d[k], for k in d
DictIndex(d, k) == d.v[CHOOSE i \in 1..Len(d.v) : d.v[i][1] = PyStr(k)][2]

\* d.get(k)
DictGet(d, k) == IF DictHas(d, k) THEN DictIndex(d, k) ELSE PyNone

\* list(d.values())
DictValues(d) == [i \in 1..Len(d.v) |-> d.v[i][2]]

\* a or b or ... over already evaluated operands: the first truthy operand,
\* else the last one; raised when a truth test before the result raises
RECURSIVE OrChain(_)
OrChain(ops) ==
  IF Len(ops) = 1 THEN [raised |-> FALSE, val |-> ops[1]]
  ELSE IF TruthRaises(ops[1]) THEN [raised |-> TRUE, val |-> PyNone]
  ELSE IF Truthy(ops[1]) THEN [raised |-> FALSE, val |-> ops[1]]
  ELSE OrChain(Tail(ops))

\* {"id": ..., "vector": ...}
Item(id, vec) == [id |-> id, vector |-> vec]

\* ------------------------------------------------------------------------
\* extract_items
\* ------------------------------------------------------------------------

\* ExtractDictEntry with 'vector' looked up before 'embedding'
ExtractDictEntryVectorFirst(items, k, v) ==
  IF IsDict(v) THEN
    IF DictHas(v, "vector") THEN Append(items, Item(Str(k), DictIndex(v, "vector")))
    ELSE IF DictHas(v, "embedding") THEN Append(items, Item(Str(k), DictIndex(v, "embedding")))
    ELSE LET maybe == SelectSeq(DictValues(v), IsArrayLike)
         IN IF Len(maybe) > 0 THEN Append(items, Item(Str(k), maybe[1])) ELSE items
  ELSE IF IsArrayLike(v) THEN Append(items, Item(Str(k), v))
  ELSE items

\* body of the loop over obj.items() for one (k, v): the items list afterwards
ExtractDictEntry(items, k, v) ==
  IF IsDict(v) THEN
    IF DictHas(v, "embedding") THEN Append(items, Item(Str(k), DictIndex(v, "embedding")))
    ELSE IF DictHas(v, "vector") THEN Append(items, Item(Str(k), DictIndex(v, "vector")))
    ELSE LET maybe == SelectSeq(DictValues(v), IsArrayLike)
         IN IF Len(maybe) > 0 THEN Append(items, Item(Str(k), maybe[1])) ELSE items
  ELSE IF IsArrayLike(v) THEN Append(items, Item(Str(k), v))
  ELSE items

\* ExtractListElement with the test "vec is not None" also on 2-element pairs
ExtractListElementCheckedPair(items, el) ==
  IF IsDict(el) THEN
    LET vid == OrChain(<<DictGet(el, "id"), DictGet(el, "name"), DictGet(el, "label"),
                         PyStr("item_" \o ToString(Len(items)))>>)
        vec == OrChain(<<DictGet(el, "embedding"), DictGet(el, "vector")>>)
    IN IF vid.raised \/ vec.raised THEN [err |-> "ValueError", items |-> items]
       ELSE IF vec.val # PyNone
            THEN [err |-> "none", items |-> Append(items, Item(Str(vid.val), vec.val))]
            ELSE [err |-> "none", items |-> items]
  ELSE IF IsListOrTuple(el) /\ Len(el.v) = 2 /\ el.v[2] # PyNone
       THEN [err |-> "none", items |-> Append(items, Item(Str(el.v[1]), el.v[2]))]
       ELSE [err |-> "none", items |-> items]

\* body of the loop over a list for one element: the items list afterwards,
\* or the exception that leaves the loop
ExtractListElement(items, el) ==
  IF IsDict(el) THEN
    LET vid == OrChain(<<DictGet(el, "id"), DictGet(el, "name"), DictGet(el, "label"),
                         PyStr("item_" \o ToString(Len(items)))>>)
        vec == OrChain(<<DictGet(el, "embedding"), DictGet(el, "vector")>>)
    IN IF vid.raised \/ vec.raised THEN [err |-> "ValueError", items |-> items]
       ELSE IF vec.val # PyNone
            THEN [err |-> "none", items |-> Append(items, Item(Str(vid.val), vec.val))]
            ELSE [err |-> "none", items |-> items]
  ELSE IF IsListOrTuple(el) /\ Len(el.v) = 2
       THEN [err |-> "none", items |-> Append(items, Item(Str(el.v[1]), el.v[2]))]
       ELSE [err |-> "none", items |-> items]

RECURSIVE ExtractDictFrom(_, _, _)
ExtractDictFrom(obj, i, items) ==
  IF i > Len(obj.v) THEN items
  ELSE ExtractDictFrom(obj, i + 1, ExtractDictEntry(items, obj.v[i][1], obj.v[i][2]))

\* ExtractListFrom with the synthetic identifier numbered by the input index
RECURSIVE ExtractListFromInputIndex(_, _, _)
ExtractListFromInputIndex(obj, i, items) ==
  IF i > Len(obj.v) THEN [err |-> "none", items |-> items]
  ELSE LET el == obj.v[i]
           r == ExtractListElement(items, el)
           synthetic ==
             /\ IsDict(el)
             /\ Len(r.items) > Len(items)
             /\ ~Truthy(OrChain(<<DictGet(el, "id"), DictGet(el, "name"),
                                  DictGet(el, "label"), PyNone>>).val)
           next == IF synthetic
                   THEN [r.items EXCEPT ![Len(r.items)].id = "item_" \o ToString(i - 1)]
                   ELSE r.items
       IN IF r.err # "none" THEN r ELSE ExtractListFromInputIndex(obj, i + 1, next)

RECURSIVE ExtractListFrom(_, _, _)
ExtractListFrom(obj, i, items) ==
  IF i > Len(obj.v) THEN [err |-> "none", items |-> items]
  ELSE LET r == ExtractListElement(items, obj.v[i])
       IN IF r.err # "none" THEN r ELSE ExtractListFrom(obj, i + 1, r.items)

\* extract_items(obj): err is "none" when it returns items
extract_items(obj) ==
  IF IsDict(obj) THEN [err |-> "none", items |-> ExtractDictFrom(obj, 1, <<>>)]
  ELSE IF IsList(obj) THEN ExtractListFrom(obj, 1, <<>>)
  ELSE [err |-> "ValueError", items |-> <<>>]

\* ------------------------------------------------------------------------
\* Floats.  A Python float x is the integer x * Scale; an operation rounds
\* its exact result to the nearest representable value, as IEEE-754 does.
\* ------------------------------------------------------------------------

\* n / d rounded to the nearest integer (d > 0)
RoundNearest(n, d) == (2 * n + d) \div (2 * d)

\* math.sqrt of n (in squared units), rounded to the nearest unit
Sqrt(n) == CHOOSE r \in 0..n : (r = 0 \/ r * r - r < n) /\ n <= r * r + r

\* exponent of the default eps = 1e-12 of normalize_vector
EpsExp == 12

\* n * 10^e < s, computed without leaving the integer range
RECURSIVE ScaledLess(_, _, _)
ScaledLess(n, s, e) ==
  IF n >= s THEN FALSE ELSE IF e = 0 THEN TRUE ELSE ScaledLess(n * 10, s, e - 1)

\* x + y for a sequence of numbers
RECURSIVE Sum(_)
Sum(s) == IF s = <<>> THEN 0 ELSE Head(s) + Sum(Tail(s))

\* strings float() parses, with the value in units
ParseFloat(s) ==
  CASE s = "0" -> [ok |-> TRUE, val |-> 0]
    [] s = "1" -> [ok |-> TRUE, val |-> Scale]
    [] s = "2.5" -> [ok |-> TRUE, val |-> (5 * Scale) \div 2]
    [] OTHER -> [ok |-> FALSE, val |-> 0]

\* float(x): err is the exception class raised, "none" when it returns val
Float(x) ==
  CASE x.t = "int" -> [err |-> "none", val |-> x.v * Scale]
    [] x.t = "float" -> [err |-> "none", val |-> x.v]
    [] x.t = "str" -> IF ParseFloat(x.v).ok THEN [err |-> "none", val |-> ParseFloat(x.v).val]
                      ELSE [err |-> "ValueError", val |-> 0]
    [] OTHER -> [err |-> "TypeError", val |-> 0]

\* [float(x) for x in v]: the exception of the first element that fails
RECURSIVE FloatAll(_, _, _)
FloatAll(v, i, acc) ==
  IF i > Len(v) THEN [err |-> "none", val |-> acc]
  ELSE LET f == Float(v[i])
       IN IF f.err # "none" THEN [err |-> f.err, val |-> <<>>]
          ELSE FloatAll(v, i + 1, Append(acc, f.val))

\* coerce_vector(v).  The float32 cast of an ndarray is below the resolution
\* of the model's floats.
coerce_vector(v) ==
  IF IsNdarray(v) THEN [err |-> "none", val |-> [i \in 1..Len(v.v) |-> v.v[i].v]]
  ELSE IF IsListOrTuple(v) THEN FloatAll(v.v, 1, <<>>)
  ELSE [err |-> "ValueError", val |-> <<>>]

\* detect_dimension(vec) for a list
detect_dimension(vec) == Len(vec)

\* normalize_vector with the sum of squares taken as the norm (no sqrt)
normalize_vector_no_sqrt(v) ==
  LET sumsq == Sum([i \in 1..Len(v) |-> v[i] * v[i]])
      norm == RoundNearest(sumsq, Scale)
  IN IF ScaledLess(sumsq, Scale * Scale, 2 * EpsExp) THEN v
     ELSE [i \in 1..Len(v) |-> RoundNearest(v[i] * Scale, norm)]

\* normalize_vector(v) with the default eps
normalize_vector(v) ==
  LET sumsq == Sum([i \in 1..Len(v) |-> v[i] * v[i]])
      norm == Sqrt(sumsq)
  IN IF ScaledLess(sumsq, Scale * Scale, 2 * EpsExp) THEN v
     ELSE [i \in 1..Len(v) |-> RoundNearest(v[i] * Scale, norm)]

\* round_vector with the built-in round(): a tie goes to the even neighbour
round_vector_half_even(v, precision) ==
  LET factor == Pow10(precision)
      up(x) == (2 * x * factor + Scale) \div (2 * Scale)
      tie(x) == (2 * x * factor + Scale) % (2 * Scale) = 0
      k(x) == IF tie(x) /\ up(x) % 2 = 1 THEN up(x) - 1 ELSE up(x)
  IN [i \in 1..Len(v) |-> RoundNearest(k(v[i]) * Scale, factor)]

\* round_vector with math.ceil in place of math.floor
round_vector_ceil(v, precision) ==
  LET factor == Pow10(precision)
      ceil(x) == 0 - ((0 - (2 * x * factor + Scale)) \div (2 * Scale))
  IN [i \in 1..Len(v) |-> RoundNearest(ceil(v[i]) * Scale, factor)]

\* round_vector(v, precision), precision >= 0
round_vector(v, precision) ==
  LET factor == Pow10(precision)
  IN [i \in 1..Len(v) |->
        RoundNearest(((2 * v[i] * factor + Scale) \div (2 * Scale)) * Scale, factor)]

\* ------------------------------------------------------------------------
\* items.sort(key=lambda x: x['id']) and items[:n]
\* ------------------------------------------------------------------------

\* the code points of the strings that occur as identifiers
CodePoints(s) ==
  CASE s = "" -> <<>>
    [] s = "alice" -> <<97, 108, 105, 99, 101>>
    [] s = "bob" -> <<98, 111, 98>>
    [] s = "eve" -> <<101, 118, 101>>
    [] s = "0" -> <<48>>
    [] s = "1" -> <<49>>
    [] s = "7" -> <<55>>
    [] s = "item_0" -> <<105, 116, 101, 109, 95, 48>>
    [] s = "item_1" -> <<105, 116, 101, 109, 95, 49>>
    [] s = "item_2" -> <<105, 116, 101, 109, 95, 50>>
    [] s = "item_3" -> <<105, 116, 101, 109, 95, 51>>
    [] s = "item_4" -> <<105, 116, 101, 109, 95, 52>>

\* a < b for sequences of code points: Python's str ordering
RECURSIVE SeqLess(_, _)
SeqLess(a, b) ==
  IF b = <<>> THEN FALSE
  ELSE IF a = <<>> THEN TRUE
  ELSE IF Head(a) # Head(b) THEN Head(a) < Head(b)
  ELSE SeqLess(Tail(a), Tail(b))

\* a < b for str
StrLess(a, b) == SeqLess(CodePoints(a), CodePoints(b))

\* x placed into the sorted list s behind every element that is not greater:
\* list.sort is stable
RECURSIVE InsertSorted(_, _)
InsertSorted(s, x) ==
  IF s = <<>> THEN <<x>>
  ELSE IF StrLess(x.id, Head(s).id) THEN <<x>> \o s
  ELSE <<Head(s)>> \o InsertSorted(Tail(s), x)

RECURSIVE SortFrom(_, _, _)
SortFrom(s, i, acc) ==
  IF i > Len(s) THEN acc ELSE SortFrom(s, i + 1, InsertSorted(acc, s[i]))

\* items.sort(key=lambda x: x['id'])
SortById(s) == SortFrom(s, 1, <<>>)

\* s[:n] for an int n
Slice(s, n) ==
  IF n >= 0 THEN SubSeq(s, 1, IF n < Len(s) THEN n ELSE Len(s))
  ELSE SubSeq(s, 1, IF Len(s) + n > 0 THEN Len(s) + n ELSE 0)

\* ------------------------------------------------------------------------
\* Inputs: the pickled object graphs and the command lines
\* ------------------------------------------------------------------------
V05 == PyList(<<PyFloat(5)>>)
V34 == PyTuple(<<PyInt(3), PyInt(-4)>>)
V000 == PyList(<<PyInt(0), PyFloat(0), PyInt(0)>>)
V123 == PyList(<<PyInt(1), PyInt(2), PyInt(3)>>)
V456 == PyList(<<PyInt(4), PyInt(5), PyInt(6)>>)
VEmpty == PyList(<<>>)
VBad == PyList(<<PyInt(1), PyStr("x")>>)
VArr == PyNdarray(<<PyFloat(5), PyFloat(-15)>>)
D(k, v) == <<PyStr(k), v>>

\* all sequences of at most n members of S
SeqsUpTo(S, n) == UNION {[1..m -> S] : m \in 0..n}

\* sequences of <<key, value>> entries with pairwise distinct keys
DistinctKeys(s) == \A i, j \in 1..Len(s) : i # j => s[i][1] # s[j][1]

MappingsOver(K, V) == {PyDict(s) : s \in {e \in SeqsUpTo(K \X V, MaxEntries) : DistinctKeys(e)}}

ListsOver(E) == {PyList(s) : s \in SeqsUpTo(E, MaxEntries)}

\* graphs for the runs of the whole pipeline
PipeKeys == {PyStr("bob"), PyStr("alice")}

PipeValues == {V05, V34, V000, VBad, PyInt(42), PyNone}

PipeElements ==
  { PyTuple(<<PyStr("bob"), V05>>), PyTuple(<<PyStr("bob"), V34>>),
    PyTuple(<<PyStr("alice"), V000>>), PyTuple(<<PyStr("alice"), PyNone>>),
    PyDict(<<D("embedding", VArr)>>), PyDict(<<D("vector", V05)>>), PyInt(7) }

PipeGraphs == MappingsOver(PipeKeys, PipeValues) \cup ListsOver(PipeElements) \cup {PyInt(7)}

\* the fixtures of the supported shapes
ExampleMapping ==
  PyDict(<< D("alice", V123), D("bob", PyDict(<<D("embedding", V456)>>)), D("eve", PyInt(42)) >>)

ExampleSequence ==
  PyList(<< PyTuple(<<PyStr("alice"), V123>>),
            PyDict(<<D("name", PyStr("bob")), D("vector", V456)>>),
            PyDict(<<D("foo", PyStr("bar"))>>) >>)

\* graphs for the structure detection
DetectKeys == {PyStr("alice"), PyStr("bob"), PyStr(""), PyInt(0)}

DetectValues ==
  { V123, V34, VArr, PyInt(42), PyNone,
    PyDict(<<D("embedding", V456)>>),
    PyDict(<<D("vector", V456)>>),
    PyDict(<<D("embedding", PyNone)>>),
    PyDict(<<D("vector", V123), D("embedding", V34)>>),
    PyDict(<<D("foo", PyStr("bar")), D("data", V123), D("more", V34)>>),
    PyDict(<<D("foo", PyStr("bar"))>>),
    PyDict(<<D("embedding", PyInt(42)), D("data", V123)>>),
    PyDict(<<>>) }

DetectElements ==
  { PyTuple(<<PyStr("alice"), V123>>),
    PyList(<<PyStr("bob"), V456>>),
    PyTuple(<<PyStr(""), V123>>),
    PyTuple(<<PyInt(0), V34>>),
    PyTuple(<<PyStr("eve"), PyNone>>),
    PyTuple(<<PyStr("eve"), V123, V456>>),
    PyInt(42),
    PyDict(<<D("name", PyStr("bob")), D("vector", V456)>>),
    PyDict(<<D("foo", PyStr("bar"))>>),
    PyDict(<<D("id", PyInt(0)), D("name", PyStr("bob")), D("embedding", V123)>>),
    PyDict(<<D("id", PyStr("")), D("label", PyStr("eve")), D("embedding", V123)>>),
    PyDict(<<D("label", PyStr("eve")), D("name", PyStr("bob")), D("id", PyStr("alice")),
             D("vector", V456)>>),
    PyDict(<<D("embedding", V123)>>),
    PyDict(<<D("name", PyStr("alice")), D("embedding", VEmpty)>>),
    PyDict(<<D("embedding", PyNone), D("vector", V456)>>),
    PyDict(<<D("vector", V34), D("embedding", PyInt(0))>>),
    PyDict(<<D("id", PyInt(0)), D("name", PyStr("")), D("embedding", V34)>>),
    PyDict(<<D("label", PyStr("eve")), D("embedding", VArr)>>) }

DetectGraphs ==
  MappingsOver(DetectKeys, DetectValues) \cup ListsOver(DetectElements)
    \cup {ExampleMapping, ExampleSequence, PyInt(7), PyTuple(<<PyTuple(<<PyStr("alice"), V123>>)>>)}

\* values given to the numeric functions as the vector of one pair
Components ==
  {PyFloat(5), PyFloat(-5), PyFloat(25), PyFloat(-15), PyFloat(14), PyInt(0), PyInt(3), PyInt(-4)}

VNull == PyList(<<PyInt(1), PyNone>>)
VNested == PyList(<<V123>>)
VText == PyTuple(<<PyStr("2.5"), PyStr("1")>>)

VectorInputs ==
  {PyList(s) : s \in SeqsUpTo(Components, MaxLen)}
    \cup {V34, VArr, VBad, VNull, VNested, VText}
    \cup {PyInt(42), PyFloat(5), PyStr("bar"), PyNone, PyDict(<<D("embedding", V123)>>)}

\* --precision values: rounding to whole numbers, at and around the
\* resolution of the model's floats, and the default
Precisions == {0, FracDigits - 1, FracDigits, 6}

\* files at the --input path: absent, not a pickle, or the pickle of a graph
NoFile == [isfile |-> FALSE, loads |-> FALSE, graph |-> PyNone]
BadFile == [isfile |-> TRUE, loads |-> FALSE, graph |-> PyNone]
PickleOf(g) == [isfile |-> TRUE, loads |-> TRUE, graph |-> g]

\* --max-items: absent, or an int
MaxItemsValues == {PyNone} \cup {PyInt(n) : n \in (0 - MaxCap)..MaxCap}

\* the argparse defaults, with --input and --output given
DefaultArgs ==
  [schema |-> FALSE, paths |-> TRUE, precision |-> 6, max_items |-> PyNone,
   sort |-> FALSE, normalize |-> FALSE]

RunArgs ==
  [schema : {FALSE}, paths : {TRUE}, precision : {0, 6}, max_items : MaxItemsValues,
   sort : BOOLEAN, normalize : BOOLEAN]

OtherArgs ==
  {[DefaultArgs EXCEPT !.schema = TRUE], [DefaultArgs EXCEPT !.paths = FALSE]}

\* ------------------------------------------------------------------------
\* main
\* ------------------------------------------------------------------------
VARIABLES
  args,        \* the parsed command line
  file,        \* the file at args.input
  data,        \* the unpickled graph
  items,       \* the detected pairs
  processed,   \* the records built so far
  dimension,   \* None, or the dimension of the first processed vector
  output,      \* None, or the document written to args.output
  pc           \* position in main, or how the process ended: "returned",
               \* "exit1", "exit2", "exit3", "done", or the uncaught exception

vars == <<args, file, data, items, processed, dimension, output, pc>>

Start ==
  /\ data = PyNone
  /\ items = <<>>
  /\ processed = <<>>
  /\ dimension = PyNone
  /\ output = PyNone
  /\ pc = "parse_args"

Init ==
  /\ \/ args \in RunArgs /\ file \in {PickleOf(g) : g \in PipeGraphs}
     \/ args \in OtherArgs \cup {DefaultArgs} /\ file \in {NoFile, BadFile, PickleOf(V123)}
  /\ Start

InitDetect ==
  /\ args \in {DefaultArgs, [DefaultArgs EXCEPT !.sort = TRUE, !.max_items = PyInt(1)]}
  /\ file \in {PickleOf(g) : g \in DetectGraphs} \cup {NoFile, BadFile}
  /\ Start

InitVector ==
  /\ args \in [schema : {FALSE}, paths : {TRUE}, precision : Precisions, max_items : {PyNone},
               sort : {FALSE}, normalize : BOOLEAN]
  /\ file \in {PickleOf(PyList(<<PyTuple(<<PyStr("alice"), v>>)>>)) : v \in VectorInputs}
  /\ Start

\* lines 112-122: --schema, missing paths, missing input file
ParseArgs ==
  /\ pc = "parse_args"
  /\ pc' = IF args.schema \/ ~args.paths THEN "returned"
           ELSE IF ~file.isfile THEN "exit1" ELSE "load"
  /\ UNCHANGED <<args, file, data, items, processed, dimension, output>>

\* lines 124-129: pickle.load
Load ==
  /\ pc = "load"
  /\ IF file.loads THEN data' = file.graph /\ pc' = "extract"
     ELSE data' = data /\ pc' = "exit2"
  /\ UNCHANGED <<args, file, items, processed, dimension, output>>

\* lines 131-134: extract_items, exit 3 when nothing was detected
Extract ==
  /\ pc = "extract"
  /\ LET r == extract_items(data)
     IN IF r.err # "none" THEN items' = items /\ pc' = r.err
        ELSE /\ items' = r.items
             /\ pc' = IF r.items = <<>> THEN "exit3" ELSE "sort"
  /\ UNCHANGED <<args, file, data, processed, dimension, output>>

\* Sort with the cap applied before the sort
SortAfterCap ==
  /\ pc = "sort"
  /\ items' = LET capped == IF Truthy(args.max_items) THEN Slice(items, args.max_items.v)
                            ELSE items
              IN IF args.sort THEN SortById(capped) ELSE capped
  /\ pc' = "truncate"
  /\ UNCHANGED <<args, file, data, processed, dimension, output>>

\* lines 136-137
Sort ==
  /\ pc = "sort"
  /\ items' = IF args.sort THEN SortById(items) ELSE items
  /\ pc' = "truncate"
  /\ UNCHANGED <<args, file, data, processed, dimension, output>>

\* lines 139-140
Truncate ==
  /\ pc = "truncate"
  /\ items' = IF Truthy(args.max_items) THEN Slice(items, args.max_items.v) ELSE items
  /\ pc' = "loop"
  /\ UNCHANGED <<args, file, data, processed, dimension, output>>

\* ProcessItem without the test "if dimension is None"
ProcessItemLastDimension ==
  /\ pc = "loop"
  /\ Len(processed) < Len(items)
  /\ LET it == items[Len(processed) + 1]
         c == coerce_vector(it.vector)
         n == IF args.normalize THEN normalize_vector(c.val) ELSE c.val
         vec == round_vector(n, args.precision)
     IN IF c.err # "none"
        THEN pc' = c.err /\ UNCHANGED <<processed, dimension>>
        ELSE /\ dimension' = PyInt(detect_dimension(vec))
             /\ processed' = Append(processed, Item(it.id, vec))
             /\ pc' = pc
  /\ UNCHANGED <<args, file, data, items, output>>

\* ProcessItem that writes the records built so far when a coercion fails
ProcessItemPartialWrite ==
  /\ pc = "loop"
  /\ Len(processed) < Len(items)
  /\ LET it == items[Len(processed) + 1]
         c == coerce_vector(it.vector)
         n == IF args.normalize THEN normalize_vector(c.val) ELSE c.val
         vec == round_vector(n, args.precision)
     IN IF c.err # "none"
        THEN /\ pc' = c.err
             /\ output' = [version |-> 1,
                           dimension |-> IF dimension # PyNone THEN dimension.v ELSE 0,
                           count |-> Len(processed),
                           embeddings |-> processed]
             /\ UNCHANGED <<processed, dimension>>
        ELSE /\ dimension' = IF dimension = PyNone THEN PyInt(detect_dimension(vec))
                             ELSE dimension
             /\ processed' = Append(processed, Item(it.id, vec))
             /\ pc' = pc
             /\ output' = output
  /\ UNCHANGED <<args, file, data, items>>

\* lines 144-151: one iteration of the loop over items
ProcessItem ==
  /\ pc = "loop"
  /\ Len(processed) < Len(items)
  /\ LET it == items[Len(processed) + 1]
         c == coerce_vector(it.vector)
         n == IF args.normalize THEN normalize_vector(c.val) ELSE c.val
         vec == round_vector(n, args.precision)
     IN IF c.err # "none"
        THEN pc' = c.err /\ UNCHANGED <<processed, dimension>>
        ELSE /\ dimension' = IF dimension = PyNone THEN PyInt(detect_dimension(vec))
                             ELSE dimension
             /\ processed' = Append(processed, Item(it.id, vec))
             /\ pc' = pc
  /\ UNCHANGED <<args, file, data, items, output>>

\* lines 153-158: out_obj
OutObj(dim, recs) ==
  [version |-> 1,
   dimension |-> IF dim # PyNone THEN dim.v ELSE 0,
   count |-> Len(recs),
   embeddings |-> recs]

\* Export with the count taken from the detected pairs
ExportCountDetected ==
  /\ pc = "loop"
  /\ Len(processed) = Len(items)
  /\ output' = [OutObj(dimension, processed) EXCEPT !.count = Len(extract_items(data).items)]
  /\ pc' = "done"
  /\ UNCHANGED <<args, file, data, items, processed, dimension>>

\* lines 153-164: the document is written once the loop is over
Export ==
  /\ pc = "loop"
  /\ Len(processed) = Len(items)
  /\ output' = OutObj(dimension, processed)
  /\ pc' = "done"
  /\ UNCHANGED <<args, file, data, items, processed, dimension>>

Next == ParseArgs \/ Load \/ Extract \/ Sort \/ Truncate \/ ProcessItem \/ Export

Spec == Init /\ [][Next]_vars

SpecDetect == InitDetect /\ [][Next]_vars

SpecVector == InitVector /\ [][Next]_vars

\* ------------------------------------------------------------------------
\* Properties
\* ------------------------------------------------------------------------
Min(a, b) == IF a < b THEN a ELSE b

Ids(s) == [i \in 1..Len(s) |-> s[i].id]

Perms(n) == {p \in [1..n -> 1..n] : \A i, j \in 1..n : i # j => p[i] # p[j]}

\* positions of main behind the cap, reached with a detection that returned
Capped ==
  /\ pc \in {"loop", "done", "ValueError", "TypeError"}
  /\ extract_items(data).err = "none"

\* the pairs the detector returned in this run
Detected == extract_items(data).items

\* the pairs in front of the cap
BeforeCap == IF args.sort THEN SortById(Detected) ELSE Detected

\* C1: with sort_by_id and max_items = N >= 1 the surviving pairs are the
\* first N pairs of the stable lexicographic sort of the detected pairs
\* (pairs with equal identifiers in detection order), and a written document
\* holds exactly these identifiers.
C1_SortBeforeCap ==
  (Capped /\ args.sort /\ args.max_items # PyNone /\ args.max_items.v >= 1) =>
    LET s == Detected
        n == Len(s)
    IN /\ \E p \in Perms(n) :
            LET t == [i \in 1..n |-> s[p[i]]]
            IN /\ \A i, j \in 1..n : i < j =>
                    /\ ~StrLess(t[j].id, t[i].id)
                    /\ (t[i].id = t[j].id => p[i] < p[j])
               /\ items = SubSeq(t, 1, Min(args.max_items.v, n))
       /\ pc = "done" => Ids(output.embeddings) = Ids(items)

C1_Witness ==
  /\ pc = "done" /\ args.sort /\ args.max_items = PyInt(1)
  /\ Ids(Detected) = <<"bob", "alice">>
  /\ Ids(output.embeddings) = <<"alice">>

\* C2: with max_items an int N (0 included) exactly the first
\* min(N, number of pairs) pairs are kept; with max_items none all are kept.
C2_CapKeepsFirstN ==
  Capped =>
    IF args.max_items = PyNone THEN items = BeforeCap
    ELSE args.max_items.v >= 0 =>
           items = SubSeq(BeforeCap, 1, Min(args.max_items.v, Len(BeforeCap)))

\* C3: a detection without pairs ends the run with exit status 3 and without
\* a document, and every written document has count >= 1 and a non-empty
\* embeddings list.
C3_NeverEmptySuccess ==
  /\ (pc \notin {"parse_args", "load", "extract", "returned", "exit1", "exit2"}
        /\ extract_items(data).err = "none" /\ Detected = <<>>)
       => (pc = "exit3" /\ output = PyNone)
  /\ output # PyNone => (output.count >= 1 /\ output.embeddings # <<>>)

\* C4: in a document with records, dimension is the length of the vector of
\* the first record, whatever the lengths of the later ones.
C4_DimensionOfFirst ==
  (output # PyNone /\ output.embeddings # <<>>) =>
    output.dimension = Len(output.embeddings[1].vector)

C4_Witness ==
  /\ output # PyNone
  /\ Len(output.embeddings) = 2
  /\ Len(output.embeddings[1].vector) # Len(output.embeddings[2].vector)
  /\ output.dimension = Len(output.embeddings[1].vector)

\* C5: in every document count is the number of records and version is 1.
C5_CountAndVersion ==
  output # PyNone => (output.count = Len(output.embeddings) /\ output.version = 1)

C5_Witness ==
  /\ output # PyNone
  /\ output.count = 1 /\ Len(output.embeddings) = 1
  /\ Len(Detected) = 2
  /\ output.version = 1

\* C6: every pair the detector emits has a non-null vector.
C6_VectorNonNull == \A i \in 1..Len(items) : items[i].vector # PyNone

\* C7: every pair the detector emits has a non-empty identifier.
C7_IdNonEmpty == \A i \in 1..Len(items) : items[i].id # ""

\* the values a mapping holds under the string key k (none or one)
Member(d, k) == {d.v[j][2] : j \in {n \in 1..Len(d.v) : d.v[n][1] = PyStr(k)}}

\* the detector has just returned
JustDetected == pc \in {"sort", "exit3"}

\* an entry value of a mapping input that yields a pair
C8_Kept(v) ==
  IF v.t = "dict"
  THEN \/ Member(v, "embedding") # {}
       \/ Member(v, "vector") # {}
       \/ \E j \in 1..Len(v.v) : v.v[j][2].t \in {"list", "tuple", "ndarray"}
  ELSE v.t \in {"list", "tuple", "ndarray"}

\* the vector of the pair of a kept entry value
C8_Vector(v) ==
  IF v.t # "dict" THEN v
  ELSE IF Member(v, "embedding") # {} THEN CHOOSE x \in Member(v, "embedding") : TRUE
  ELSE IF Member(v, "vector") # {} THEN CHOOSE x \in Member(v, "vector") : TRUE
  ELSE LET first == CHOOSE j \in 1..Len(v.v) :
                      /\ v.v[j][2].t \in {"list", "tuple", "ndarray"}
                      /\ \A h \in 1..(j - 1) : v.v[h][2].t \notin {"list", "tuple", "ndarray"}
       IN v.v[first][2]

\* number of kept entries among the first i entries of the mapping input
C8_Rank(i) == Cardinality({j \in 1..i : C8_Kept(data.v[j][2])})

\* C8: for a mapping input the pairs are, in insertion order, one per entry
\* whose value is array-like or a mapping with an 'embedding' key, else a
\* 'vector' key, else an array-like member (the first one); the identifier
\* is str(key); every other entry is dropped.
C8_MappingDetection ==
  (JustDetected /\ data.t = "dict") =>
    /\ Len(items) = C8_Rank(Len(data.v))
    /\ \A i \in 1..Len(data.v) :
         C8_Kept(data.v[i][2]) =>
           items[C8_Rank(i)] = [id |-> Str(data.v[i][1]), vector |-> C8_Vector(data.v[i][2])]
    /\ data = ExampleMapping => Ids(items) = <<"alice", "bob">>

C8_Witness ==
  /\ pc = "sort"
  /\ data = ExampleMapping
  /\ items = <<[id |-> "alice", vector |-> V123], [id |-> "bob", vector |-> V456]>>

\* strictly increasing maps of 1..n into 1..m: which element each pair is from
Alignments(n, m) == {f \in [1..n -> 1..m] : \A i, j \in 1..n : i < j => f[i] < f[j]}

\* the identifier of a mapping element emitted as pair number n + 1: the
\* value of the first of 'id', 'name', 'label' the element has, as a string
C9_Id(el, n) ==
  IF Member(el, "id") \ {PyNone} # {} THEN Str(CHOOSE x \in Member(el, "id") : TRUE)
  ELSE IF Member(el, "name") \ {PyNone} # {} THEN Str(CHOOSE x \in Member(el, "name") : TRUE)
  ELSE IF Member(el, "label") \ {PyNone} # {} THEN Str(CHOOSE x \in Member(el, "label") : TRUE)
  ELSE "item_" \o ToString(n)

\* C9: every pair of a sequence input that comes from a mapping element has
\* the identifier str(value of the first of 'id', 'name', 'label' provided),
\* whatever that value is, and 'item_<n>' only when none is provided.
C9_IdFromFirstKey ==
  (JustDetected /\ data.t = "list") =>
    \E f \in Alignments(Len(items), Len(data.v)) :
      \A n \in 1..Len(items) :
        data.v[f[n]].t = "dict" => items[n].id = C9_Id(data.v[f[n]], n - 1)

\* the vector of a mapping element: the non-null 'embedding', else 'vector'
C10_Vector(el) ==
  IF Member(el, "embedding") \ {PyNone} # {} THEN CHOOSE x \in Member(el, "embedding") : TRUE
  ELSE IF Member(el, "vector") \ {PyNone} # {} THEN CHOOSE x \in Member(el, "vector") : TRUE
  ELSE PyNone

\* an element of a sequence input that yields a pair
C10_Kept(el) ==
  \/ el.t = "dict" /\ C10_Vector(el) # PyNone
  \/ el.t \in {"list", "tuple"} /\ Len(el.v) = 2

C10_Rank(i) == Cardinality({j \in 1..i : C10_Kept(data.v[j])})

\* C10: in a sequence input a mapping element yields a pair exactly when its
\* 'embedding' or its 'vector' is non-null, with the vector the non-null
\* 'embedding', else the 'vector'.
C10_VectorFromKeys ==
  (JustDetected /\ data.t = "list") =>
    /\ Len(items) = C10_Rank(Len(data.v))
    /\ \A i \in 1..Len(data.v) :
         (data.v[i].t = "dict" /\ C10_Kept(data.v[i])) =>
           items[C10_Rank(i)].vector = C10_Vector(data.v[i])
    /\ data = ExampleSequence => Len(items) = 2

\* an element of a sequence input that is a 2-component pair
IsPair(el) == el.t \in {"list", "tuple"} /\ Len(el.v) = 2

\* C11: in a sequence input every 2-component pair is emitted as
\* {id: str(first), vector: second}, whatever the second component is, and
\* no pair comes from an element that is neither a mapping nor a
\* 2-component pair.
C11_PairsUnconditional ==
  (JustDetected /\ data.t = "list") =>
    \E f \in Alignments(Len(items), Len(data.v)) :
      /\ \A i \in 1..Len(data.v) :
           IsPair(data.v[i]) =>
             \E n \in 1..Len(items) :
               /\ f[n] = i
               /\ items[n] = [id |-> Str(data.v[i].v[1]), vector |-> data.v[i].v[2]]
      /\ \A n \in 1..Len(items) : data.v[f[n]].t = "dict" \/ IsPair(data.v[f[n]])

C11_Witness ==
  /\ pc = "sort"
  /\ data = PyList(<<PyTuple(<<PyStr("eve"), PyNone>>), PyTuple(<<PyStr("eve"), V123, V456>>)>>)
  /\ items = <<[id |-> "eve", vector |-> PyNone]>>

\* the detector raised: main ended with an exception before it had pairs
DetectorRaised == pc \in {"ValueError", "TypeError"} /\ items = <<>>

\* C12: the detector raises exactly when the top-level graph is neither a
\* mapping nor a sequence (list or tuple); for every mapping and sequence it
\* returns, and the run then continues or ends with exit status 3, which is
\* not the outcome of the unsupported structure.
C12_UnsupportedIffNotContainer ==
  (pc \notin {"parse_args", "load", "extract", "returned", "exit1", "exit2"}) =>
    /\ DetectorRaised <=> data.t \notin {"dict", "list", "tuple"}
    /\ ~(DetectorRaised /\ pc = "exit3")

\* a mapping element without any of the keys 'id', 'name', 'label'
Keyless(el) ==
  el.t = "dict" /\ Member(el, "id") \cup Member(el, "name") \cup Member(el, "label") = {}

\* C18: in a sequence input the pair of a mapping element without 'id',
\* 'name' and 'label' has the identifier 'item_<n>' with n the number of
\* pairs emitted before it, which is not the input index of the element
\* once an earlier element was dropped or skipped.
C18_SyntheticIdCountsEmitted ==
  (JustDetected /\ data.t = "list") =>
    \E f \in Alignments(Len(items), Len(data.v)) :
      \A n \in 1..Len(items) :
        LET el == data.v[f[n]]
        IN /\ IsPair(el) => items[n] = [id |-> Str(el.v[1]), vector |-> el.v[2]]
           /\ el.t = "dict" => items[n].vector \in Member(el, "embedding") \cup Member(el, "vector")
           /\ Keyless(el) => items[n].id = "item_" \o ToString(n - 1)
           /\ el.t = "dict" \/ IsPair(el)

C18_Witness ==
  /\ pc = "sort"
  /\ data = PyList(<<PyDict(<<D("foo", PyStr("bar"))>>), PyDict(<<D("embedding", V123)>>)>>)
  /\ items = <<[id |-> "item_0", vector |-> V123]>>

\* the pair the loop of main stopped at, or is at
Current == items[Len(processed) + 1]

\* main ended with the exception of a coercion
CoercionFailed == pc \in {"ValueError", "TypeError"} /\ items # <<>>

\* an element float() accepts: a number, or a string that spells one
Numeric(x) == x.t \in {"int", "float"} \/ (x.t = "str" /\ x.v \in {"0", "1", "2.5"})

\* the float of a numeric element, in units
Cast(x) ==
  CASE x.t = "int" -> x.v * Scale
    [] x.t = "float" -> x.v
    [] x.v = "0" -> 0
    [] x.v = "1" -> Scale
    [] x.v = "2.5" -> (5 * Scale) \div 2

\* a value coerce_vector is to accept
Coercible(v) ==
  v.t \in {"list", "tuple", "ndarray"} /\ \A j \in 1..Len(v.v) : Numeric(v.v[j])

\* C13: an array-like value of numeric elements is coerced to the floats of
\* its elements, in order; every other value, and an array-like value with
\* a non-numeric element, fails with the one error kind
\* UnsupportedVectorType (the ValueError of coerce_vector).
C13_CoerceOrOneErrorKind ==
  /\ \A i \in 1..Len(processed) :
       /\ Coercible(items[i].vector)
       /\ Len(processed[i].vector) = Len(items[i].vector.v)
       /\ (~args.normalize /\ args.precision >= FracDigits) =>
            \A j \in 1..Len(processed[i].vector) :
              processed[i].vector[j] = Cast(items[i].vector.v[j])
  /\ CoercionFailed => (pc = "ValueError" /\ ~Coercible(Current.vector))

\* C14: a run ends with an error only when the input file is missing or
\* cannot be unpickled, the top-level graph is no mapping or sequence, or no
\* pair was detected; an item inside a recognized graph never ends the run.
C14_ErrorOnlyOnTotalFailure ==
  /\ pc = "exit1" => ~file.isfile
  /\ pc = "exit2" => ~file.loads
  /\ pc = "exit3" => items = <<>>
  /\ pc \in {"ValueError", "TypeError"} => data.t \notin {"dict", "list", "tuple"}

\* the vector handed to round_vector for pair i
PreRound(i) ==
  LET c == coerce_vector(items[i].vector).val
  IN IF args.normalize THEN normalize_vector(c) ELSE c

\* r is x rounded half up to a multiple of 10^-p: r = k / 10^p for the
\* integer k with k <= x * 10^p + 1/2 < k + 1
HalfUp(r, x, p) ==
  /\ (r * Pow10(p)) % Scale = 0
  /\ LET k == (r * Pow10(p)) \div Scale
     IN /\ 2 * k * Scale <= 2 * x * Pow10(p) + Scale
        /\ 2 * x * Pow10(p) + Scale < 2 * (k + 1) * Scale

\* C15: every component of a record is the component handed to
\* round_vector rounded half up at the precision: floor(x * 10^p + 0.5) / 10^p,
\* a tie going to the larger value.
C15_RoundHalfUp ==
  \A i \in 1..Len(processed) :
    /\ Len(processed[i].vector) = Len(PreRound(i))
    /\ \A j \in 1..Len(processed[i].vector) :
         HalfUp(processed[i].vector[j], PreRound(i)[j], args.precision)

C15_Witness ==
  /\ pc = "done"
  /\ ~args.normalize /\ args.precision = FracDigits - 1
  /\ items[1].vector = PyList(<<PyFloat(25), PyFloat(-5)>>)
  /\ output.embeddings[1].vector = <<30, 0>>

SumSq(c) == Sum([j \in 1..Len(c) |-> c[j] * c[j]])

\* n is the float nearest to the square root of q
NearestRoot(n, q) == n * n - n < q /\ q <= n * n + n

\* r is the float nearest to x / n (a tie either way)
NearestQuotient(r, x, n) ==
  /\ 2 * (r * n - x * Scale) <= n
  /\ 2 * (x * Scale - r * n) <= n

\* C17: with --normalize a vector whose norm is below eps comes back
\* unchanged (the representable vectors of norm below 1e-12 are those of
\* zeros, the empty one included), and every other vector comes back with
\* each component divided by the norm.  Stated at the default precision,
\* where round_vector changes no representable value.
C17_NormalizeOrUnchanged ==
  (args.normalize /\ args.precision = 6) =>
    \A i \in 1..Len(processed) :
      LET c == coerce_vector(items[i].vector).val
          r == processed[i].vector
      IN /\ Len(r) = Len(c)
         /\ IF SumSq(c) = 0 THEN r = c
            ELSE \E n \in 1..SumSq(c) :
                   /\ NearestRoot(n, SumSq(c))
                   /\ \A j \in 1..Len(c) : NearestQuotient(r[j], c[j], n)

C17_Witness ==
  /\ pc = "done"
  /\ args.normalize /\ args.precision = 6
  /\ items[1].vector = PyList(<<PyInt(0), PyInt(0)>>)
  /\ output.embeddings[1].vector = <<0, 0>>

\* C19: the failure of a coercion ends the run at that pair, for both
\* causes and at every position, and no document is written: a document
\* exists only when the vector of every surviving pair was coerced.
C19_FailFastNoDocument ==
  /\ output # PyNone => \A i \in 1..Len(items) : Coercible(items[i].vector)
  /\ CoercionFailed =>
       /\ output = PyNone
       /\ ~Coercible(Current.vector)
       /\ \A i \in 1..Len(processed) : Coercible(items[i].vector)
       /\ ~ENABLED Next

C19_Witness ==
  /\ CoercionFailed
  /\ Len(processed) = 1
  /\ Current.vector = VBad
  /\ output = PyNone

====
